---------------------------- MODULE Spec2Model ----------------------------
(***************************************************************************)
(* Stage classification and adaptive-threshold subsystem of the solar      *)
(* plant monitoring pipeline.                                              *)
(*                                                                         *)
(* Every script of the repository is a process that runs to completion on  *)
(* the files of results/; one action of the model is one run of one        *)
(* script.  The files are the state.  Scores are kept in thousandths       *)
(* (0.80 is 800), so that round(x, 3) lands on an integer.                 *)
(***************************************************************************)
EXTENDS Integers, Sequences, FiniteSets

VARIABLES
    summary,              \* results/stage3_rule_based_summary.csv
    clip_analysis,        \* results/clip_analysis.json (read by step3_rule_based_logic)
    rule_analysis,        \* results/rule_analysis.json
    feedback_template,    \* results/stage4_feedback_template.csv
    feedback_log,         \* results/feedback_log.csv
    adaptive_thresholds,  \* results/adaptive_thresholds.json
    last_run,             \* the script that ran last and how its process ended
    summary_by,           \* history: the script whose run wrote the summary
    saving,               \* the stage4_feedback_system.py processes inside their save branch
    results,              \* run_working_pipeline.py, main: the list results
    report,               \* reports/final_monitoring_report_*.pdf, the newest
    running,              \* run_working_pipeline.py: the stage whose subprocess runs, or 0
    stage2_comparison,    \* results/stage2_comparison.json, as the pipeline leaves it
    message,              \* run_working_pipeline.py, main: the verdict printed at the end
    answer,               \* stage4_feedback_system.py: what was typed at the last prompt
    timestamps            \* the timestamp column of feedback_log.csv, row by row

vars == <<summary, clip_analysis, rule_analysis, feedback_template,
          feedback_log, adaptive_thresholds, last_run, summary_by,
          saving, results, report, running, stage2_comparison, message,
          answer, timestamps>>

\* what a run of one stage script on its own leaves alone
elsewhere == <<saving, results, report, running, stage2_comparison, message,
               answer, timestamps>>

(***************************************************************************)
(* Bounds of the model.                                                    *)
(***************************************************************************)
MaxImages == 1     \* images in one stage-2 batch
MaxLog == 3        \* rows of feedback_log.csv
MaxPermLog == 4    \* rows of a feedback log handed to the Learner as found

(***************************************************************************)
(* Files.                                                                  *)
(***************************************************************************)
NoFile == [exists |-> FALSE, rows |-> <<>>]
File(rows) == [exists |-> TRUE, rows |-> rows]

(***************************************************************************)
(* Floats.  NaN is the one non-finite value the model carries; every       *)
(* ordered comparison with it is false, as in IEEE 754.                    *)
(***************************************************************************)
NaN == -999999

FGt(a, b) == a # NaN /\ b # NaN /\ a > b
FGe(a, b) == a # NaN /\ b # NaN /\ a >= b
FLe(a, b) == a # NaN /\ b # NaN /\ a <= b
FLt(a, b) == a # NaN /\ b # NaN /\ a < b

StageSet == {"foundation", "mounting", "installation"}

\* the supervisors who may be saving feedback at the same time
Reviewers == {"A", "B"}

\* a stage4_feedback_system.py process that is not inside its save branch
Idle == [pc |-> "idle", fb_df |-> <<>>, appended |-> <<>>]

(***************************************************************************)
(* The three fixed cut-point classifiers.                                  *)
(***************************************************************************)
\* determine_stage with the upper boundary made inclusive (>= 0.80)
determine_stage_inclusive(similarity_value) ==
    IF FGe(similarity_value, 800) THEN "installation"
    ELSE IF FLe(600, similarity_value) /\ FLe(similarity_value, 800) THEN "mounting"
    ELSE "foundation"

\* determine_stage with the first cut-point moved to 0.85 and the band left as it is
determine_stage_gap(similarity_value) ==
    IF FGt(similarity_value, 850) THEN "installation"
    ELSE IF FLe(600, similarity_value) /\ FLe(similarity_value, 800) THEN "mounting"
    ELSE "foundation"

\* stage3_rule_based_analysis.py, determine_stage
determine_stage(similarity_value) ==
    IF FGt(similarity_value, 800) THEN "installation"
    ELSE IF FLe(600, similarity_value) /\ FLe(similarity_value, 800) THEN "mounting"
    ELSE "foundation"

\* determine_stage reading the learned bands first: the first stored band that
\* holds the score decides, the fixed cut-points only when none does
determine_stage_learned(similarity) ==
    LET bands == adaptive_thresholds.rows
        Holds(s) == /\ adaptive_thresholds.exists
                    /\ s \in DOMAIN bands
                    /\ FLe(bands[s].recommended_min, similarity)
                    /\ FLe(similarity, bands[s].recommended_max)
    IN  IF Holds("foundation") THEN "foundation"
        ELSE IF Holds("mounting") THEN "mounting"
        ELSE IF Holds("installation") THEN "installation"
        ELSE IF FGt(similarity, 800) THEN "installation"
        ELSE IF FGe(similarity, 700) THEN "mounting"
        ELSE "foundation"

\* determine_stage choosing the stage whose stored band has the nearest mean,
\* the fixed cut-points only when no band is stored
determine_stage_nearest(similarity) ==
    LET bands == adaptive_thresholds.rows
        Dist(s) == IF bands[s].mean_similarity >= similarity
                   THEN bands[s].mean_similarity - similarity
                   ELSE similarity - bands[s].mean_similarity
    IN  IF adaptive_thresholds.exists /\ DOMAIN bands # {} /\ similarity # NaN
        THEN CHOOSE s \in DOMAIN bands : \A t \in DOMAIN bands : Dist(s) <= Dist(t)
        ELSE IF FGt(similarity, 800) THEN "installation"
        ELSE IF FGe(similarity, 700) THEN "mounting"
        ELSE "foundation"

\* determine_stage with 0.70 as the boundary between installation and mounting
determine_stage_working_070(similarity) ==
    IF FGe(similarity, 700) THEN "installation"
    ELSE IF FGe(similarity, 600) THEN "mounting"
    ELSE "foundation"

\* stage3_working.py, determine_stage
determine_stage_working(similarity) ==
    IF FGt(similarity, 800) THEN "installation"
    ELSE IF FGe(similarity, 700) THEN "mounting"
    ELSE "foundation"

\* final_complete_pipeline.py, the rule inside step3_rule_based_logic
rule_stage(similarity_score) ==
    IF FGt(similarity_score, 800) THEN "installation"
    ELSE IF FGt(similarity_score, 700) THEN "mounting"
    ELSE "foundation"

\* a finished run: the script, its exit code, and the result files it wrote
Ran(script, code, wrote) == [script |-> script, exit |-> code, wrote |-> wrote]

(***************************************************************************)
(* Stage 3.  data is the content of results/stage2_comparison.json: NoFile *)
(* or the similarity of each image, in order.                              *)
(***************************************************************************)
Stage3RuleBased(data) ==
    /\ IF ~data.exists
       THEN /\ last_run' = Ran("stage3_rule_based_analysis", 1, {})
            /\ UNCHANGED <<summary, summary_by>>
       ELSE IF data.rows = <<>>
       THEN /\ last_run' = Ran("stage3_rule_based_analysis", 0, {})
            /\ UNCHANGED <<summary, summary_by>>
       ELSE /\ summary' = File([i \in 1..Len(data.rows) |->
                                  [similarity |-> data.rows[i],
                                   predicted_stage |-> determine_stage(data.rows[i])]])
            /\ last_run' = Ran("stage3_rule_based_analysis", 0, {"summary"})
            /\ summary_by' = "stage3_rule_based_analysis"
    /\ UNCHANGED <<clip_analysis, rule_analysis, feedback_template,
                   feedback_log, adaptive_thresholds>>

\* the rows stage3_working.py writes when stage2_comparison.json is missing
sample_data ==
    << [similarity |-> 850, predicted_stage |-> "installation"],
       [similarity |-> 720, predicted_stage |-> "mounting"],
       [similarity |-> 650, predicted_stage |-> "foundation"] >>

Stage3Working(data) ==
    /\ IF ~data.exists
       THEN /\ summary' = File(sample_data)
            /\ last_run' = Ran("stage3_working", 0, {"summary"})
       ELSE IF data.rows = <<>>
       THEN \* DataFrame([]) is written, then df["predicted_stage"] raises KeyError
            /\ summary' = File(<<>>)
            /\ last_run' = Ran("stage3_working", 1, {"summary"})
       ELSE /\ summary' = File([i \in 1..Len(data.rows) |->
                                  [similarity |-> data.rows[i],
                                   predicted_stage |-> determine_stage_working(data.rows[i])]])
            /\ last_run' = Ran("stage3_working", 0, {"summary"})
    /\ summary_by' = "stage3_working"
    /\ UNCHANGED <<clip_analysis, rule_analysis, feedback_template,
                   feedback_log, adaptive_thresholds>>

(***************************************************************************)
(* final_complete_pipeline.py, step3_rule_based_logic.  clip_data is the   *)
(* content of results/clip_analysis.json, the similarity_score of each     *)
(* image; the rows written keep the image (its index) and the stage.       *)
(***************************************************************************)
step3_rule_based_logic(clip_data) ==
    /\ clip_analysis' = File(clip_data)
    /\ rule_analysis' = File([i \in 1..Len(clip_data) |->
                                [image |-> i, detected_stage |-> rule_stage(clip_data[i])]])
    /\ last_run' = Ran("final_complete_pipeline", 0, {"rule_analysis"})
    /\ UNCHANGED <<summary, feedback_template, feedback_log, adaptive_thresholds,
                   summary_by>>

(***************************************************************************)
(* Stage 4, stage4_feedback_system.py.  The script writes a blank template *)
(* from the stage-3 summary, then waits at its prompt; `edited` is what    *)
(* the template file holds when the supervisor answers (the blank template *)
(* if nobody touched it), and `choice` is the answer, stripped and         *)
(* lower-cased.  A row of the template and of the log:                     *)
(*   [predicted_stage, similarity, is_correct, corrected_stage]            *)
(* with "" for a blank cell.                                               *)
(***************************************************************************)
blank_template(df) ==
    [i \in 1..Len(df) |->
        [predicted_stage |-> df[i].predicted_stage,
         similarity |-> df[i].similarity,
         is_correct |-> "",
         corrected_stage |-> ""]]

Stage4FeedbackSystem(edited, choice) ==
    /\ IF ~summary.exists
       THEN /\ last_run' = Ran("stage4_feedback_system", 1, {})
            /\ UNCHANGED <<feedback_template, feedback_log>>
       ELSE IF summary.rows = <<>>
       THEN \* the file stage3_working.py left from no images has no columns
            /\ last_run' = Ran("stage4_feedback_system", 1, {})
            /\ UNCHANGED <<feedback_template, feedback_log>>
       ELSE LET fb_df == IF edited.exists THEN edited.rows
                         ELSE blank_template(summary.rows)
            IN  /\ feedback_template' = File(fb_df)
                /\ IF choice = "save"
                   THEN /\ Len(feedback_log.rows) + Len(fb_df) <= MaxLog
                        /\ feedback_log' =
                              IF feedback_log.exists
                              THEN File(feedback_log.rows \o fb_df)
                              ELSE File(fb_df)
                        /\ last_run' = Ran("stage4_feedback_system", 0,
                                           {"feedback_template", "feedback_log"})
                   ELSE /\ UNCHANGED feedback_log
                        /\ last_run' = Ran("stage4_feedback_system", 0,
                                           {"feedback_template"})
    /\ UNCHANGED <<summary, clip_analysis, rule_analysis, adaptive_thresholds,
                   summary_by>>

(***************************************************************************)
(* The save branch of stage4_feedback_system.py statement by statement,    *)
(* for supervisors who work on the same results/ at the same time.  Each   *)
(* runs the script once; saving[p] is the process of supervisor p:         *)
(*   pc        idle, asked (answered 'save'), template_read, log_read,     *)
(*             done;                                                       *)
(*   fb_df     the frame the process holds;                                *)
(*   appended  the records it read from the template, which it appends.    *)
(***************************************************************************)
\* lines 24-62: the template is written, the supervisor fills it in while the
\* prompt waits, and answers 'save'
AnswerSave(p, verdicts) ==
    /\ saving[p].pc = "idle"
    /\ summary.exists /\ summary.rows # <<>>
    /\ Len(verdicts) = Len(summary.rows)
    /\ feedback_template' =
          File([i \in 1..Len(verdicts) |->
                  [blank_template(summary.rows)[i] EXCEPT
                      !.is_correct = verdicts[i][1],
                      !.corrected_stage = verdicts[i][2]]])
    /\ saving' = [saving EXCEPT ![p].pc = "asked"]
    /\ UNCHANGED <<summary, clip_analysis, rule_analysis, feedback_log,
                   adaptive_thresholds, last_run, summary_by, results, report,
                   running, stage2_comparison, message,
                   answer, timestamps>>

\* lines 63-64: fb_df = pd.read_csv(feedback_template)
ReadTemplate(p) ==
    /\ saving[p].pc = "asked"
    /\ saving' = [saving EXCEPT ![p] = [pc |-> "template_read",
                                        fb_df |-> feedback_template.rows,
                                        appended |-> feedback_template.rows]]
    /\ UNCHANGED <<summary, clip_analysis, rule_analysis, feedback_template, feedback_log,
                   adaptive_thresholds, last_run, summary_by, results, report,
                   running, stage2_comparison, message,
                   answer, timestamps>>

\* lines 67-69: existing = pd.read_csv(feedback_log); fb_df = pd.concat(...)
ReadLog(p) ==
    /\ saving[p].pc = "template_read"
    /\ saving' = [saving EXCEPT ![p].pc = "log_read",
                                ![p].fb_df = IF feedback_log.exists
                                             THEN feedback_log.rows \o @
                                             ELSE @]
    /\ UNCHANGED <<summary, clip_analysis, rule_analysis, feedback_template, feedback_log,
                   adaptive_thresholds, last_run, summary_by, results, report,
                   running, stage2_comparison, message,
                   answer, timestamps>>

\* line 71: fb_df.to_csv(feedback_log), and the process ends
WriteLog(p) ==
    /\ saving[p].pc = "log_read"
    /\ feedback_log' = File(saving[p].fb_df)
    /\ saving' = [saving EXCEPT ![p].pc = "done"]
    /\ last_run' = Ran("stage4_feedback_system", 0, {"feedback_template", "feedback_log"})
    /\ UNCHANGED <<summary, clip_analysis, rule_analysis, feedback_template,
                   adaptive_thresholds, summary_by, results, report,
                   running, stage2_comparison, message,
                   answer, timestamps>>

(***************************************************************************)
(* The supervisor at the template between two runs of the script, steps 1  *)
(* to 3 of HOW TO USE: a verdict <<is_correct, corrected_stage>> goes into *)
(* every row and the file is saved.                                        *)
(***************************************************************************)
SupervisorEdits(verdicts) ==
    /\ feedback_template.exists
    /\ Len(verdicts) = Len(feedback_template.rows)
    /\ feedback_template' =
          File([i \in 1..Len(verdicts) |->
                  [feedback_template.rows[i] EXCEPT !.is_correct = verdicts[i][1],
                                                    !.corrected_stage = verdicts[i][2]]])
    /\ last_run' = Ran("supervisor", 0, {"feedback_template"})
    /\ UNCHANGED <<summary, clip_analysis, rule_analysis, feedback_log,
                   adaptive_thresholds, summary_by>>

(***************************************************************************)
(* Stage 4, stage4_working.py: a blank template and a sample feedback log  *)
(* from the stage-3 summary, a two-row sample template without one.        *)
(***************************************************************************)
sample_feedback(df) ==
    [i \in 1..Len(df) |->
        [predicted_stage |-> df[i].predicted_stage,
         similarity |-> df[i].similarity,
         is_correct |-> <<"yes", "no", "yes">>[i],
         corrected_stage |-> <<"", "installation", "">>[i]]]

sample_template ==
    << [predicted_stage |-> "installation", similarity |-> 850,
        is_correct |-> "", corrected_stage |-> ""],
       [predicted_stage |-> "mounting", similarity |-> 720,
        is_correct |-> "", corrected_stage |-> ""] >>

Stage4Working ==
    /\ IF ~summary.exists
       THEN /\ feedback_template' = File(sample_template)
            /\ last_run' = Ran("stage4_working", 0, {"feedback_template"})
            /\ UNCHANGED feedback_log
       ELSE IF summary.rows = <<>>
       THEN \* read_csv finds no columns in the file
            /\ last_run' = Ran("stage4_working", 1, {})
            /\ UNCHANGED <<feedback_template, feedback_log>>
       ELSE IF Len(summary.rows) > 3
       THEN \* three sample verdicts do not fit a longer frame: ValueError
            /\ feedback_template' = File(blank_template(summary.rows))
            /\ last_run' = Ran("stage4_working", 1, {"feedback_template"})
            /\ UNCHANGED feedback_log
       ELSE /\ feedback_template' = File(blank_template(summary.rows))
            /\ feedback_log' = File(sample_feedback(summary.rows))
            /\ last_run' = Ran("stage4_working", 0, {"feedback_template", "feedback_log"})
    /\ UNCHANGED <<summary, clip_analysis, rule_analysis, adaptive_thresholds,
                   summary_by>>

(***************************************************************************)
(* Stage 5, the Threshold Learner.                                         *)
(***************************************************************************)
\* str.lower() on the cell texts the model carries
Lower(s) ==
    CASE s = "Yes" -> "yes"
      [] s = "No" -> "no"
      [] s = "Foundation" -> "foundation"
      [] s = "Mounting" -> "mounting"
      [] s = "Installation" -> "installation"
      [] OTHER -> s

RECURSIVE SumSeq(_)
SumSeq(xs) == IF xs = <<>> THEN 0 ELSE Head(xs) + SumSeq(Tail(xs))

Squares(xs) == [i \in 1..Len(xs) |-> xs[i] * xs[i]]

\* floor of the square root of x >= 0, by bisection on lo <= sqrt(x) < hi
RECURSIVE ISqrtIn(_, _, _)
ISqrtIn(x, lo, hi) ==
    IF hi - lo <= 1 THEN lo
    ELSE LET mid == (lo + hi) \div 2
         IN  IF mid * mid <= x THEN ISqrtIn(x, mid, hi) ELSE ISqrtIn(x, lo, mid)

\* 46341 squared is the first square past the 32-bit integers TLC computes in
ISqrt(x) == ISqrtIn(x, 0, IF x < 46340 THEN x + 1 ELSE 46341)

(***************************************************************************)
(* round(v, 3) for v = (A + sign * sqrt(D)) / n in thousandths, n > 0,     *)
(* D >= 0, sign 1 or -1: the nearest integer, an exact half going to the   *)
(* even neighbour (Python's round).  With E = 4D, floor(v + 1/2) is        *)
(* floor((2A + n + sign * sqrt(E)) / 2n), and the floor of an integer plus *)
(* or minus a square root is taken on the root's floor or ceiling.         *)
(***************************************************************************)
Round3(A, sign, D, n) ==
    LET E == 4 * D
        f == ISqrt(E)
        exact == f * f = E
        num == IF sign = 1 THEN 2 * A + n + f
               ELSE 2 * A + n - (IF exact THEN f ELSE f + 1)
        r == num \div (2 * n)
        tie == exact /\ num % (2 * n) = 0
    IN  IF tie /\ r % 2 = 1 THEN r - 1 ELSE r

(***************************************************************************)
(* Doubles.  A score of the files is a decimal s/1000; the double read for *)
(* it, and every double a sum of such doubles gives, is carried as         *)
(*     S / 1000  +  e / (1000 * 2^56)                                      *)
(* with S the exact sum in thousandths and e the error the roundings have  *)
(* left, so that an addition rounds as IEEE 754 does (to nearest, ties to  *)
(* the even mantissa).  Good for 0.25 <= value < 8.                        *)
(***************************************************************************)
\* the doubles at S/1000 + x/(1000 * 2^56) are 2^-Binade apart
Binade(S, x) ==
    LET T == IF x < 0 THEN S - 1 ELSE S
    IN  IF T < 500 THEN 54
        ELSE IF T < 1000 THEN 53
        ELSE IF T < 2000 THEN 52
        ELSE IF T < 4000 THEN 51
        ELSE 50

\* 2^k modulo 2000 for k <= 54, in two factors that stay below 2^31
Pow2Mod2000(k) ==
    IF k <= 27 THEN (2 ^ k) % 2000
    ELSE (((2 ^ 27) % 2000) * ((2 ^ (k - 27)) % 2000)) % 2000

\* the double nearest to S/1000 + x/(1000 * 2^56)
FlRound(S, x) ==
    LET p == Binade(S, x)
        h == 2 ^ (56 - p)
        g == 1000 * h
        R2 == (h * ((S * Pow2Mod2000(p)) % 2000) + x) % (2 * g)
        r == R2 % g
        odd == R2 >= g
    IN  [S |-> S,
         e |-> IF r = 0 THEN x
               ELSE IF 2 * r < g THEN x - r
               ELSE IF 2 * r > g THEN x + g - r
               ELSE IF odd THEN x + g - r ELSE x - r]

\* the double read_csv gives for the decimal s/1000
Float(s) == FlRound(s, 0)

FlAdd(a, b) == FlRound(a.S + b.S, a.e + b.e)

\* np.add.reduce on fewer than 8 doubles: one accumulator, left to right
RECURSIVE FlSumFrom(_, _)
FlSumFrom(acc, xs) ==
    IF xs = <<>> THEN acc ELSE FlSumFrom(FlAdd(acc, Float(Head(xs))), Tail(xs))

FlSum(xs) == FlSumFrom(Float(Head(xs)), Tail(xs))

(***************************************************************************)
(* round(np.mean(xs), 3), in thousandths.  The mean of n decimals lies     *)
(* half-way between two thousandths only for an even n; for n = 2 and 4    *)
(* the division is exact and the side the double lies on is the sign of    *)
(* the error of the sum.  The built-in round of a float rounds the         *)
(* double's exact value.                                                   *)
(***************************************************************************)
RoundMeanPy(xs) ==
    LET n == Len(xs)
        sum == FlSum(xs)
        q == (2 * sum.S + n) \div (2 * n)
        tie == (2 * sum.S + n) % (2 * n) = 0
    IN  IF ~tie THEN q
        ELSE IF n \in {2, 4} /\ sum.e > 0 THEN q
        ELSE IF n \in {2, 4} /\ sum.e < 0 THEN q - 1
        ELSE IF q % 2 = 0 THEN q ELSE q - 1

(***************************************************************************)
(* round of a numpy.float64 is numpy's: rint(x * 1000) / 1000.  The        *)
(* product x * 1000 is a double again, 2^-44 from its neighbours below 512 *)
(* and 2^-43 above; it is the exact half unless the error of the mean is   *)
(* more than half that spacing, and rint sends the exact half to the even  *)
(* neighbour.                                                              *)
(***************************************************************************)
RoundMeanNp(xs) ==
    LET n == Len(xs)
        sum == FlSum(xs)
        q == (2 * sum.S + n) \div (2 * n)
        tie == (2 * sum.S + n) % (2 * n) = 0
        lim == n * (IF q - 1 < 512 THEN 2048 ELSE 4096)
    IN  IF ~tie THEN q
        ELSE IF n \in {2, 4} /\ sum.e > lim THEN q
        ELSE IF n \in {2, 4} /\ sum.e < -lim THEN q - 1
        ELSE IF q % 2 = 0 THEN q ELSE q - 1

\* n^2 times the population variance of xs: n * sum(x^2) - sum(x)^2
VarNum(xs) == Len(xs) * SumSeq(Squares(xs)) - SumSeq(xs) * SumSeq(xs)

\* Band with the sample standard deviation (divisor N - 1) in place of np.std's N
BandSampleStd(stage_sims) ==
    LET n == Len(stage_sims)
        S == SumSeq(stage_sims)
        D == IF n = 1 THEN 0 ELSE (VarNum(stage_sims) * n) \div (n - 1)
    IN  [mean_similarity |-> RoundMeanPy(stage_sims),
         std_dev |-> Round3(0, 1, D, n),
         recommended_min |-> Round3(S, -1, D, n),
         recommended_max |-> Round3(S, 1, D, n),
         sample_size |-> n]

\* np.mean, np.std (population, ddof = 0) and the rounded band of one stage,
\* stage5_self_learning.py: the mean and the deviation are made floats first
Band(stage_sims) ==
    LET n == Len(stage_sims)
        S == SumSeq(stage_sims)
        D == VarNum(stage_sims)
    IN  [mean_similarity |-> RoundMeanPy(stage_sims),
         std_dev |-> Round3(0, 1, D, n),
         recommended_min |-> Round3(S, -1, D, n),
         recommended_max |-> Round3(S, 1, D, n),
         sample_size |-> n]

Similarities(df) == [i \in 1..Len(df) |-> df[i].similarity]

\* IsYes taking a blank is_correct for a confirmation
IsYesOrBlank(r) == r.is_correct \in {"yes", ""}
IsYes(r) == r.is_correct = "yes"
IsNo(r) == r.is_correct = "no"

\* the scores gathered for one stage, from the correct and the incorrect rows
StageSims(stage, correct, incorrect) ==
    LET PredictedHere(r) == r.predicted_stage = stage
        CorrectedHere(r) == r.corrected_stage = stage
    IN  Similarities(SelectSeq(correct, PredictedHere))
            \o Similarities(SelectSeq(incorrect, CorrectedHere))

\* the loop over stages = ["foundation", "mounting", "installation"]
StageLoop(correct, incorrect) ==
    [stage \in {s \in StageSet : StageSims(s, correct, incorrect) # <<>>} |->
        Band(StageSims(stage, correct, incorrect))]

\* the loop updating the stored table in place: sample_size grows by the stored one
stage_thresholds_incremental(correct, incorrect) ==
    LET new == StageLoop(correct, incorrect)
        stored(s) == IF adaptive_thresholds.exists /\ s \in DOMAIN adaptive_thresholds.rows
                     THEN adaptive_thresholds.rows[s].sample_size
                     ELSE 0
    IN  [s \in DOMAIN new |-> [new[s] EXCEPT !.sample_size = @ + stored(s)]]

\* stage_thresholds of stage5_self_learning.py as the loop leaves it
stage_thresholds(correct, incorrect) == StageLoop(correct, incorrect)

\* the band of stage5_working.py: mean_sim and std_sim stay numpy.float64
BandWorking(stage_similarities) ==
    [Band(stage_similarities) EXCEPT !.mean_similarity = RoundMeanNp(stage_similarities)]

\* the loop of stage5_working.py, which leaves the dict adaptive_thresholds
adaptive_thresholds_loop(correct_predictions, incorrect_predictions) ==
    [stage \in {s \in StageSet :
                   StageSims(s, correct_predictions, incorrect_predictions) # <<>>} |->
        BandWorking(StageSims(stage, correct_predictions, incorrect_predictions))]

\* stage5_self_learning.py, "Cleaning": every text column is lower-cased
CleanSelfLearning(df) ==
    [i \in 1..Len(df) |->
        [predicted_stage |-> Lower(df[i].predicted_stage),
         similarity |-> df[i].similarity,
         is_correct |-> Lower(df[i].is_correct),
         corrected_stage |-> Lower(df[i].corrected_stage)]]

\* Stage5SelfLearning writing the cleaned frame back to feedback_log.csv
Stage5SelfLearningSavesCleaned ==
    /\ IF ~feedback_log.exists
       THEN /\ last_run' = Ran("stage5_self_learning", 1, {})
            /\ UNCHANGED <<adaptive_thresholds, feedback_log>>
       ELSE LET df == CleanSelfLearning(feedback_log.rows)
                correct == SelectSeq(df, IsYes)
                incorrect == SelectSeq(df, IsNo)
            IN  /\ feedback_log' = File(df)
                /\ IF Len(df) = 0 \/ Len(incorrect) = 0
                   THEN /\ last_run' = Ran("stage5_self_learning", 0, {})
                        /\ UNCHANGED adaptive_thresholds
                   ELSE /\ adaptive_thresholds' = File(stage_thresholds(correct, incorrect))
                        /\ last_run' = Ran("stage5_self_learning", 0,
                                           {"adaptive_thresholds"})
    /\ UNCHANGED <<summary, clip_analysis, rule_analysis, feedback_template, summary_by>>

\* Stage5SelfLearning saving its empty stage_thresholds when every entry is correct
Stage5SelfLearningSavesEmpty ==
    /\ IF ~feedback_log.exists
       THEN /\ last_run' = Ran("stage5_self_learning", 1, {})
            /\ UNCHANGED adaptive_thresholds
       ELSE LET df == CleanSelfLearning(feedback_log.rows)
                correct == SelectSeq(df, IsYes)
                incorrect == SelectSeq(df, IsNo)
            IN  IF Len(df) = 0
                THEN /\ last_run' = Ran("stage5_self_learning", 0, {})
                     /\ UNCHANGED adaptive_thresholds
                ELSE IF Len(incorrect) = 0
                THEN /\ adaptive_thresholds' = File(<< >>)
                     /\ last_run' = Ran("stage5_self_learning", 0, {"adaptive_thresholds"})
                ELSE /\ adaptive_thresholds' = File(stage_thresholds(correct, incorrect))
                     /\ last_run' = Ran("stage5_self_learning", 0, {"adaptive_thresholds"})
    /\ UNCHANGED <<summary, clip_analysis, rule_analysis, feedback_template,
                   feedback_log, summary_by>>

Stage5SelfLearning ==
    /\ IF ~feedback_log.exists
       THEN /\ last_run' = Ran("stage5_self_learning", 1, {})
            /\ UNCHANGED adaptive_thresholds
       ELSE LET df == CleanSelfLearning(feedback_log.rows)
                correct == SelectSeq(df, IsYes)
                incorrect == SelectSeq(df, IsNo)
            IN  IF Len(df) = 0 \/ Len(incorrect) = 0
                THEN /\ last_run' = Ran("stage5_self_learning", 0, {})
                     /\ UNCHANGED adaptive_thresholds
                ELSE /\ adaptive_thresholds' = File(stage_thresholds(correct, incorrect))
                     /\ last_run' = Ran("stage5_self_learning", 0, {"adaptive_thresholds"})
    /\ UNCHANGED <<summary, clip_analysis, rule_analysis, feedback_template,
                   feedback_log, summary_by>>

\* stage5_working.py compares is_correct lower-cased and the stage columns as read
LowerIsCorrect(df) ==
    [i \in 1..Len(df) |-> [df[i] EXCEPT !.is_correct = Lower(@)]]

\* read_csv gives a column of blank cells only the dtype float64, and .str raises on it
AllBlank(df) == Len(df) > 0 /\ \A i \in 1..Len(df) : df[i].is_correct = ""

\* the table stage5_working.py writes when feedback_log.csv is missing
sample_thresholds ==
    [foundation |-> [mean_similarity |-> 650, std_dev |-> 80, recommended_min |-> 570,
                     recommended_max |-> 730, sample_size |-> 5],
     mounting |-> [mean_similarity |-> 750, std_dev |-> 60, recommended_min |-> 690,
                   recommended_max |-> 810, sample_size |-> 4],
     installation |-> [mean_similarity |-> 880, std_dev |-> 40, recommended_min |-> 840,
                       recommended_max |-> 920, sample_size |-> 3]]

Stage5Working ==
    /\ IF ~feedback_log.exists
       THEN /\ adaptive_thresholds' = File(sample_thresholds)
            /\ last_run' = Ran("stage5_working", 0, {"adaptive_thresholds"})
       ELSE IF AllBlank(feedback_log.rows)
       THEN /\ last_run' = Ran("stage5_working", 1, {})
            /\ UNCHANGED adaptive_thresholds
       ELSE LET df == LowerIsCorrect(feedback_log.rows)
                correct_predictions == SelectSeq(df, IsYes)
                incorrect_predictions == SelectSeq(df, IsNo)
            IN  /\ adaptive_thresholds' =
                      File(adaptive_thresholds_loop(correct_predictions,
                                                    incorrect_predictions))
                /\ last_run' = Ran("stage5_working", 0, {"adaptive_thresholds"})
    /\ UNCHANGED <<summary, clip_analysis, rule_analysis, feedback_template,
                   feedback_log, summary_by>>

(***************************************************************************)
(* Stage 6, stage6_working.py: the report.  Of the PDF the model keeps     *)
(* what it shows of the other stages' files: the number of images per      *)
(* predicted stage, and for every stored band its recommended_min and      *)
(* recommended_max.                                                        *)
(***************************************************************************)
\* stage3_data["predicted_stage"].value_counts()
value_counts(df) ==
    [s \in {df[i].predicted_stage : i \in DOMAIN df} |->
        Cardinality({i \in DOMAIN df : df[i].predicted_stage = s})]

\* the lines under "Adaptive Learning Thresholds"
threshold_lines(thresholds_data) ==
    [s \in DOMAIN thresholds_data |->
        <<thresholds_data[s].recommended_min, thresholds_data[s].recommended_max>>]

Stage6Working ==
    /\ IF summary.exists /\ summary.rows = <<>>
       THEN \* read_csv finds no columns in the file
            /\ last_run' = Ran("stage6_working", 1, {})
            /\ UNCHANGED report
       ELSE /\ report' =
                 File([stage_counts |-> IF summary.exists THEN value_counts(summary.rows)
                                        ELSE << >>,
                       thresholds |-> IF adaptive_thresholds.exists
                                      THEN threshold_lines(adaptive_thresholds.rows)
                                      ELSE << >>])
            /\ last_run' = Ran("stage6_working", 0, {"report"})
    /\ UNCHANGED <<summary, clip_analysis, rule_analysis, feedback_template,
                   feedback_log, adaptive_thresholds, summary_by>>

Init ==
    /\ summary = NoFile
    /\ clip_analysis = NoFile
    /\ rule_analysis = NoFile
    /\ feedback_template = NoFile
    /\ feedback_log = NoFile
    /\ adaptive_thresholds = NoFile
    /\ last_run = Ran("none", 0, {})
    /\ summary_by = "none"
    /\ saving = [p \in Reviewers |-> Idle]
    /\ results = <<>>
    /\ report = NoFile
    /\ running = 0
    /\ stage2_comparison = NoFile
    /\ message = ""
    /\ answer = ""
    /\ timestamps = <<>>

(***************************************************************************)
(* Inputs of the classifiers: the cut-points, their neighbours one         *)
(* thousandth away, the scores of the documented scenarios, and NaN.       *)
(***************************************************************************)
ClassifyScores == {400, 599, 600, 650, 700, 800, 801, 850, NaN}

SeqsUpTo(S, n) == UNION {[1..k -> S] : k \in 0..n}

Stage2Files == {NoFile} \cup {File(d) : d \in SeqsUpTo(ClassifyScores, MaxImages)}

NextClassify ==
    \/ \E data \in Stage2Files : Stage3RuleBased(data) /\ UNCHANGED elsewhere
    \/ \E data \in Stage2Files : Stage3Working(data) /\ UNCHANGED elsewhere
    \/ \E clip_data \in SeqsUpTo(ClassifyScores, MaxImages) :
          step3_rule_based_logic(clip_data) /\ UNCHANGED elsewhere

SpecClassify == Init /\ [][NextClassify]_vars

(***************************************************************************)
(* Inputs of the feedback loop: what a supervisor may leave in the         *)
(* template when answering the prompt.  NoFile stands for "untouched".     *)
(***************************************************************************)
Row(p, s, c, k) ==
    [predicted_stage |-> p, similarity |-> s, is_correct |-> c, corrected_stage |-> k]

FeedbackRows ==
    { Row("foundation", 550, "no", "mounting"),
      Row("mounting", 770, "yes", ""),
      Row("mounting", 750, "yes", ""),
      Row("foundation", 550, "yes", "installation"),
      Row("mounting", 750, "no", ""),
      Row("mounting", 770, "", ""),
      Row("installation", 850, "No", "Mounting") }

EditedTemplates == {NoFile, File(<<>>)} \cup {File(<<r>>) : r \in FeedbackRows}

\* the supervisor saves what was edited, or leaves the template alone and declines
Stage4Inputs == {<<e, "save">> : e \in EditedTemplates} \cup {<<NoFile, "">>}

NextLearn ==
    \/ Stage3Working(NoFile) /\ UNCHANGED elsewhere
    \/ \E in \in Stage4Inputs : Stage4FeedbackSystem(in[1], in[2]) /\ UNCHANGED elsewhere
    \/ Stage5SelfLearning /\ UNCHANGED elsewhere
    \/ Stage5Working /\ UNCHANGED elsewhere

SpecLearn == Init /\ [][NextLearn]_vars

(***************************************************************************)
(* The stage scripts as one pipeline on the files they share: stage 3      *)
(* classifies, stage 4 saves feedback, stage 5 recomputes, in any order,   *)
(* on a small set of inputs.  (final_complete_pipeline.py is a program of  *)
(* its own on files of its own; SpecClassify runs it.)                     *)
(***************************************************************************)
PipelineScores == {650, 700}

PipelineStage2Files == {NoFile} \cup {File(d) : d \in SeqsUpTo(PipelineScores, MaxImages)}

PipelineStage4Inputs ==
    { <<File(<<Row("foundation", 550, "no", "mounting")>>), "save">>,
      <<File(<<Row("mounting", 770, "yes", "")>>), "save">>,
      <<NoFile, "">> }

Next ==
    \/ \E data \in PipelineStage2Files : Stage3RuleBased(data) /\ UNCHANGED elsewhere
    \/ \E data \in PipelineStage2Files : Stage3Working(data) /\ UNCHANGED elsewhere
    \/ \E in \in PipelineStage4Inputs :
          Stage4FeedbackSystem(in[1], in[2]) /\ UNCHANGED elsewhere
    \/ Stage5SelfLearning /\ UNCHANGED elsewhere
    \/ Stage5Working /\ UNCHANGED elsewhere

Spec == Init /\ [][Next]_vars

(***************************************************************************)
(* What the script that ran last classified: the <<score, stage>> pairs of *)
(* the file it wrote.  rule_analysis.json keeps no score; row i of it      *)
(* belongs to row i of clip_analysis.json.                                 *)
(***************************************************************************)
Classified ==
    IF "summary" \in last_run.wrote
    THEN {<<summary.rows[i].similarity, summary.rows[i].predicted_stage>> :
             i \in DOMAIN summary.rows}
    ELSE IF "rule_analysis" \in last_run.wrote
    THEN {<<clip_analysis.rows[i], rule_analysis.rows[i].detected_stage>> :
             i \in DOMAIN rule_analysis.rows}
    ELSE {}

ByRuleBased == last_run.script = "stage3_rule_based_analysis"

\* stage maturity: Foundation < Mounting < Installation
Rank(stage) ==
    CASE stage = "foundation" -> 0
      [] stage = "mounting" -> 1
      [] stage = "installation" -> 2

(***************************************************************************)
(* C1.  stage3_rule_based_analysis.determine_stage: every finite score     *)
(* above 0.80 is installation, every score in [0.60, 0.80] is mounting and *)
(* every score below 0.60 is foundation; 0.80 and 0.60 are mounting.       *)
(***************************************************************************)
C1_FixedCutPoints ==
    ByRuleBased =>
        \A p \in Classified :
            p[1] # NaN =>
                /\ p[1] > 800 => p[2] = "installation"
                /\ (600 <= p[1] /\ p[1] <= 800) => p[2] = "mounting"
                /\ p[1] < 600 => p[2] = "foundation"

C1_Witness == ByRuleBased /\ <<800, "mounting">> \in Classified

(***************************************************************************)
(* C2.  Every fixed cut-point classifier labels 0.85 installation, 0.70    *)
(* mounting and 0.40 foundation.                                           *)
(***************************************************************************)
C2_Scenario ==
    \A p \in Classified :
        /\ p[1] = 850 => p[2] = "installation"
        /\ p[1] = 700 => p[2] = "mounting"
        /\ p[1] = 400 => p[2] = "foundation"

(***************************************************************************)
(* C3.  Each classifier is monotone: of two scores a < b it classified, in *)
(* one run or in two successive runs, the stage of a is not of higher      *)
(* maturity than the stage of b.                                           *)
(***************************************************************************)
MonotonePairs(P, Q) ==
    \A p \in P, q \in Q :
        /\ FLt(p[1], q[1]) => Rank(p[2]) <= Rank(q[2])
        /\ FLt(q[1], p[1]) => Rank(q[2]) <= Rank(p[2])

C3_Monotone ==
    [][ /\ MonotonePairs(Classified', Classified')
        /\ last_run'.script = last_run.script => MonotonePairs(Classified, Classified')
      ]_vars

C3_Witness == ByRuleBased /\ <<801, "installation">> \in Classified

(***************************************************************************)
(* C5.  A NaN score is rejected with InvalidScore: it never carries a      *)
(* stage label in what a classifier wrote.                                 *)
(***************************************************************************)
C5_NaNRejected == \A p \in Classified : p[1] # NaN

(***************************************************************************)
(* The Learner's run that ended last, and the log it read (a Learner never *)
(* writes the log, so the log of the state is the log of the run).         *)
(***************************************************************************)
Learners == {"stage5_self_learning", "stage5_working"}
Recomputed == last_run.script \in Learners /\ feedback_log.exists
WroteTable == "adaptive_thresholds" \in last_run.wrote
Table == adaptive_thresholds.rows
Log == feedback_log.rows

\* the stage a record speaks for: its predicted stage when confirmed correct,
\* its corrected stage when marked incorrect, none otherwise
SpokenStage(r) ==
    IF Lower(r.is_correct) = "yes" THEN Lower(r.predicted_stage)
    ELSE IF Lower(r.is_correct) = "no" THEN Lower(r.corrected_stage)
    ELSE ""

Contributors(s) == {i \in DOMAIN Log : SpokenStage(Log[i]) = s}

RECURSIVE ScoreSum(_)
ScoreSum(I) ==
    IF I = {} THEN 0
    ELSE LET i == CHOOSE j \in I : TRUE
         IN  Log[i].similarity + ScoreSum(I \ {i})

RECURSIVE SquareSum(_)
SquareSum(I) ==
    IF I = {} THEN 0
    ELSE LET i == CHOOSE j \in I : TRUE
         IN  Log[i].similarity * Log[i].similarity + SquareSum(I \ {i})

\* m is the mean of the scores at I, to the nearest thousandth
IsMeanOf(m, I) ==
    LET n == Cardinality(I)
        d == 2 * (n * m - ScoreSum(I))
    IN  -n <= d /\ d <= n

(***************************************************************************)
(* C6.  For every feedback log and stage s the Learner uses exactly the    *)
(* scores of the records confirmed correct and predicted s and of the      *)
(* records marked incorrect and corrected to s: the table it leaves has a  *)
(* band for s with that many samples and their mean, and no band for a     *)
(* stage nobody speaks for.                                                *)
(***************************************************************************)
C6_SampleSets ==
    Recomputed =>
        \A s \in StageSet :
            IF Contributors(s) = {}
            THEN ~(WroteTable /\ s \in DOMAIN Table)
            ELSE /\ WroteTable
                 /\ s \in DOMAIN Table
                 /\ Table[s].sample_size = Cardinality(Contributors(s))
                 /\ IsMeanOf(Table[s].mean_similarity, Contributors(s))

(***************************************************************************)
(* C7.  Recomputing from an empty feedback log fails with                  *)
(* EmptyFeedbackLog: the run does not end as a success and no threshold    *)
(* table is written.                                                       *)
(***************************************************************************)
C7_EmptyLogFails ==
    (Recomputed /\ Log = <<>>) => ~WroteTable

(***************************************************************************)
(* C8.  From a non-empty log whose records are all confirmed correct the   *)
(* Learner still writes a table, with a band for exactly the stages that   *)
(* have a confirmed record; the log (mounting, 0.75, yes) gives the one    *)
(* band mounting: mean 0.75, std_dev 0, min 0.75, max 0.75, sample_size 1. *)
(***************************************************************************)
AllConfirmed == Log # <<>> /\ \A i \in DOMAIN Log : Lower(Log[i].is_correct) = "yes"

C8_AllCorrectBand ==
    (Recomputed /\ AllConfirmed) =>
        /\ WroteTable
        /\ DOMAIN Table = {Lower(Log[i].predicted_stage) : i \in DOMAIN Log}
        /\ Log = <<[predicted_stage |-> "mounting", similarity |-> 750,
                    is_correct |-> "yes", corrected_stage |-> ""]>>
             => Table = [mounting |->
                           [mean_similarity |-> 750, std_dev |-> 0, recommended_min |-> 750,
                            recommended_max |-> 750, sample_size |-> 1]]

(***************************************************************************)
(* A band the Learner computed from a log, and the records behind it.      *)
(* stage5_self_learning.py matches stage names lower-cased,                *)
(* stage5_working.py as they stand in the log.                             *)
(***************************************************************************)
WorkingStage(r) ==
    IF Lower(r.is_correct) = "yes" THEN r.predicted_stage
    ELSE IF Lower(r.is_correct) = "no" THEN r.corrected_stage
    ELSE ""

EmittedFrom(s) ==
    IF last_run.script = "stage5_working"
    THEN {i \in DOMAIN Log : WorkingStage(Log[i]) = s}
    ELSE Contributors(s)

\* c is within n of the square root of d: c - n <= sqrt(d) <= c + n
NearRoot(c, d, n) ==
    /\ c - n <= 0 \/ (c - n) * (c - n) <= d
    /\ c + n >= 0 /\ d <= (c + n) * (c + n)

AbsDiff(a, b) == IF a >= b THEN a - b ELSE b - a

C10_Idempotent ==
    [][ (last_run.script \in Learners /\ last_run'.script = last_run.script)
          => (last_run' = last_run /\ adaptive_thresholds' = adaptive_thresholds)
      ]_vars

C10_Witness ==
    /\ last_run.script = "stage5_self_learning"
    /\ WroteTable
    /\ Len(Log) >= 2
    /\ DOMAIN Table # StageSet

(***************************************************************************)
(* C4.  classify is deterministic and total: every label a classifier      *)
(* writes is one of foundation, mounting, installation, and a score it     *)
(* classified before gets the same label again, whatever other             *)
(* classifications, feedback saves and threshold recomputations ran in     *)
(* between.                                                                *)
(***************************************************************************)
SummaryPairs(f) == {<<f.rows[i].similarity, f.rows[i].predicted_stage>> : i \in DOMAIN f.rows}

SameLabels(P, Q) == \A p \in P, q \in Q : p[1] = q[1] => p[2] = q[2]

C4_Deterministic ==
    [][ /\ \A p \in SummaryPairs(summary') : p[2] \in StageSet
        /\ SameLabels(SummaryPairs(summary'), SummaryPairs(summary'))
        /\ summary_by' = summary_by =>
              SameLabels(SummaryPairs(summary), SummaryPairs(summary'))
      ]_vars

\* a classification that ran after a feedback save and a threshold recomputation
C4_Witness ==
    /\ last_run.script = "stage3_working"
    /\ <<700, "mounting">> \in Classified
    /\ feedback_log.exists
    /\ adaptive_thresholds.exists
    /\ "mounting" \in DOMAIN adaptive_thresholds.rows

(***************************************************************************)
(* The Learner on a feedback log as it finds it: any log of reviews of     *)
(* images scored 0.65 and 0.70, the two scores either side of the          *)
(* cut-point of stage3_working.py.                                         *)
(***************************************************************************)
PermRows ==
    { Row("foundation", 650, "no", "installation"),
      Row("mounting", 700, "no", "installation"),
      Row("mounting", 700, "yes", "") }

InitPermute ==
    /\ summary = NoFile
    /\ clip_analysis = NoFile
    /\ rule_analysis = NoFile
    /\ feedback_template = NoFile
    /\ feedback_log \in {File(rows) : rows \in SeqsUpTo(PermRows, MaxPermLog)}
    /\ adaptive_thresholds = NoFile
    /\ last_run = Ran("none", 0, {})
    /\ summary_by = "none"
    /\ saving = [p \in Reviewers |-> Idle]
    /\ results = <<>>
    /\ report = NoFile
    /\ running = 0
    /\ stage2_comparison = NoFile
    /\ message = ""
    /\ answer = ""
    /\ timestamps = <<>>

NextPermute ==
    \/ Stage5SelfLearning /\ UNCHANGED elsewhere
    \/ Stage5Working /\ UNCHANGED elsewhere

SpecPermute == InitPermute /\ [][NextPermute]_vars

\* the table a Learner script computes from the rows of a log
TableFrom(script, rows) ==
    IF script = "stage5_working"
    THEN LET df == LowerIsCorrect(rows)
         IN  adaptive_thresholds_loop(SelectSeq(df, IsYes), SelectSeq(df, IsNo))
    ELSE LET df == CleanSelfLearning(rows)
         IN  stage_thresholds(SelectSeq(df, IsYes), SelectSeq(df, IsNo))

Permutations(n) == {f \in [1..n -> 1..n] : \A i, j \in 1..n : f[i] = f[j] => i = j}

Permuted(rows, f) == [i \in 1..Len(rows) |-> rows[f[i]]]

(***************************************************************************)
(* C11.  Recompute has no ordering dependency: the table a Learner run     *)
(* leaves is the table the same Learner computes from every permutation of *)
(* the records of the log (same stages, same sample_size, mean and band    *)
(* limits).                                                                *)
(***************************************************************************)
C11_OrderFree ==
    (Recomputed /\ WroteTable) =>
        \A f \in Permutations(Len(Log)) :
            TableFrom(last_run.script, Permuted(Log, f)) = Table

(***************************************************************************)
(* A record marked incorrect that names no corrected stage, the log        *)
(* without such records, and the bands a Learner run computes: those of    *)
(* the table it writes, none when it writes no table.                      *)
(***************************************************************************)
Incomplete(r) == Lower(r.is_correct) = "no" /\ r.corrected_stage = ""
Complete(r) == ~Incomplete(r)

\* whether a Learner script gets as far as writing its table from these rows
WritesFrom(script, rows) ==
    IF script = "stage5_working"
    THEN ~AllBlank(rows)
    ELSE Len(rows) > 0 /\ \E i \in DOMAIN rows : Lower(rows[i].is_correct) = "no"

Computed == IF WroteTable THEN Table ELSE << >>

ComputedFrom(script, rows) ==
    IF WritesFrom(script, rows) THEN TableFrom(script, rows) ELSE << >>

(***************************************************************************)
(* C12.  A record marked incorrect with an empty corrected_stage gives its *)
(* score to no stage and does not abort the Learner: the run ends well and *)
(* the bands it computes are the bands the same Learner computes from the  *)
(* log without such records.                                               *)
(***************************************************************************)
C12_IncompleteIgnored ==
    (Recomputed /\ \E i \in DOMAIN Log : Incomplete(Log[i])) =>
        /\ last_run.exit = 0
        /\ Computed = ComputedFrom(last_run.script, SelectSeq(Log, Complete))

(***************************************************************************)
(* C13.  A stage with no contributing feedback record is omitted from the  *)
(* table the Learner writes: every band of a written table has a record    *)
(* of the log behind it and a sample_size of at least 1.                   *)
(***************************************************************************)
C13_EmptyBandOmitted ==
    (last_run.script \in Learners /\ WroteTable) =>
        \A s \in DOMAIN Table :
            Contributors(s) # {} /\ Table[s].sample_size >= 1

(***************************************************************************)
(* C14.  Across Learner runs, the band stored for a stage that has no      *)
(* samples in the current recomputation is retained in                     *)
(* adaptive_thresholds.json as it was.                                     *)
(***************************************************************************)
C14_PriorBandRetained ==
    [][ (last_run'.script \in Learners /\ adaptive_thresholds.exists) =>
            \A s \in DOMAIN adaptive_thresholds.rows :
                EmittedFrom(s)' = {} =>
                    /\ adaptive_thresholds'.exists
                    /\ s \in DOMAIN adaptive_thresholds'.rows
                    /\ adaptive_thresholds'.rows[s] = adaptive_thresholds.rows[s]
      ]_vars

(***************************************************************************)
(* C15.  A Learner run leaves feedback_log.csv as it found it, whether it  *)
(* writes a table, exits early or fails.                                   *)
(***************************************************************************)
C15_LogUntouched ==
    [][ last_run'.script \in Learners => feedback_log' = feedback_log ]_vars

\* a Learner that lower-cased what it read has written its table
C15_Witness ==
    /\ last_run.script = "stage5_self_learning"
    /\ WroteTable
    /\ \E i \in DOMAIN Log : Log[i].is_correct = "No"

(***************************************************************************)
(* The feedback stage by itself.  The supervisor edits the template        *)
(* between runs, as the printed procedure says, and answers the prompt of  *)
(* stage4_feedback_system.py without touching the file again.              *)
(***************************************************************************)
Verdicts == {<<"yes", "">>, <<"no", "installation">>}

FeedbackStage4Inputs == {<<NoFile, "save">>, <<NoFile, "">>}

NextFeedback ==
    \/ \E data \in PipelineStage2Files : Stage3Working(data) /\ UNCHANGED elsewhere
    \/ \E verdicts \in SeqsUpTo(Verdicts, 3) : SupervisorEdits(verdicts) /\ UNCHANGED elsewhere
    \/ \E in \in FeedbackStage4Inputs :
          Stage4FeedbackSystem(in[1], in[2]) /\ UNCHANGED elsewhere
    \/ Stage4Working /\ UNCHANGED elsewhere

SpecFeedback == Init /\ [][NextFeedback]_vars

IsPrefix(xs, ys) == Len(xs) <= Len(ys) /\ \A i \in 1..Len(xs) : ys[i] = xs[i]

FeedbackStages == {"stage4_feedback_system", "stage4_working"}

(***************************************************************************)
(* C16.  The feedback log is append-only: across a run of either feedback  *)
(* stage, with or without 'save', the log that was there is still there    *)
(* and is a prefix of the log afterwards.                                  *)
(***************************************************************************)
C16_AppendOnly ==
    [][ (last_run'.script \in FeedbackStages /\ feedback_log.exists) =>
            /\ feedback_log'.exists
            /\ IsPrefix(feedback_log.rows, feedback_log'.rows)
      ]_vars

(***************************************************************************)
(* C19.  HOW TO USE: the supervisor fills the template, saves it, runs     *)
(* stage4_feedback_system.py again and types 'save'; the records that run  *)
(* appends to feedback_log.csv are the rows the supervisor saved, verdicts *)
(* included.                                                               *)
(***************************************************************************)
C19_ProcedureSavesVerdicts ==
    [][ ( /\ last_run.script = "supervisor"
          /\ last_run'.script = "stage4_feedback_system"
          /\ "feedback_log" \in last_run'.wrote )
        => feedback_log'.rows = feedback_log.rows \o feedback_template.rows
      ]_vars

(***************************************************************************)
(* Two supervisors saving feedback on the same results/: a summary of one  *)
(* image from stage 3 and a log of one record from an earlier save.        *)
(***************************************************************************)
InitialLog == <<Row("installation", 850, "yes", "")>>

InitConcurrent ==
    /\ summary \in {File(<<[similarity |-> x, predicted_stage |-> determine_stage_working(x)]>>) :
                       x \in PipelineScores}
    /\ clip_analysis = NoFile
    /\ rule_analysis = NoFile
    /\ feedback_template = NoFile
    /\ feedback_log = File(InitialLog)
    /\ adaptive_thresholds = NoFile
    /\ last_run = Ran("stage3_working", 0, {"summary"})
    /\ summary_by = "stage3_working"
    /\ saving = [p \in Reviewers |-> Idle]
    /\ results = <<>>
    /\ report = NoFile
    /\ running = 0
    /\ stage2_comparison = NoFile
    /\ message = ""
    /\ answer = ""
    /\ timestamps = <<>>

NextConcurrent ==
    \/ \E p \in Reviewers, verdicts \in SeqsUpTo(Verdicts, MaxImages) : AnswerSave(p, verdicts)
    \/ \E p \in Reviewers : ReadTemplate(p)
    \/ \E p \in Reviewers : ReadLog(p)
    \/ \E p \in Reviewers : WriteLog(p)

SpecConcurrent == InitConcurrent /\ [][NextConcurrent]_vars

Count(r, xs) == Cardinality({i \in DOMAIN xs : xs[i] = r})

RECURSIVE AppendedCount(_, _)
AppendedCount(r, P) ==
    IF P = {} THEN 0
    ELSE LET p == CHOOSE q \in P : TRUE
         IN  Count(r, saving[p].appended) + AppendedCount(r, P \ {p})

AllSaved == \A p \in Reviewers : saving[p].pc = "done"

(***************************************************************************)
(* C17.  Concurrent appends lose no record: when every supervisor's save   *)
(* has finished, however their reads and writes interleaved, the log holds *)
(* every record of the initial log and every record each of them appended. *)
(***************************************************************************)
C17_NoLostAppend ==
    AllSaved =>
        \A r \in {InitialLog[i] : i \in DOMAIN InitialLog}
                 \cup UNION {{saving[p].appended[i] : i \in DOMAIN saving[p].appended} :
                                p \in Reviewers} :
            Count(r, feedback_log.rows) >= Count(r, InitialLog) + AppendedCount(r, Reviewers)

(***************************************************************************)
(* Classification, feedback, recomputation and the report on one results/, *)
(* in any order: images scored 0.65, and the two reviews that teach the    *)
(* Learner a mounting band around that score.                              *)
(***************************************************************************)
ReportStage2Files == {NoFile, File(<<650>>)}

ReportStage4Inputs ==
    { <<File(<<Row("foundation", 550, "no", "mounting")>>), "save">>,
      <<File(<<Row("mounting", 770, "yes", "")>>), "save">> }

NextReport ==
    \/ \E data \in ReportStage2Files : Stage3RuleBased(data) /\ UNCHANGED elsewhere
    \/ \E data \in ReportStage2Files : Stage3Working(data) /\ UNCHANGED elsewhere
    \/ \E in \in ReportStage4Inputs :
          Stage4FeedbackSystem(in[1], in[2]) /\ UNCHANGED elsewhere
    \/ Stage5SelfLearning /\ UNCHANGED elsewhere
    \/ Stage5Working /\ UNCHANGED elsewhere
    \/ Stage6Working /\ UNCHANGED <<saving, results, running, stage2_comparison, message,
                   answer, timestamps>>

SpecReport == Init /\ [][NextReport]_vars

\* a stored band whose limits hold the score
LearnedBandHolds(s, x) ==
    /\ adaptive_thresholds.exists
    /\ s \in DOMAIN Table
    /\ Table[s].recommended_min <= x
    /\ x <= Table[s].recommended_max

(***************************************************************************)
(* C18.  The Classifier never consumes learned bands: whatever             *)
(* adaptive_thresholds.json holds after any feedback saves and             *)
(* recomputations, the summary a stage-3 script wrote carries for every    *)
(* score the stage of that script's fixed cut-points (0.80 and 0.60 for    *)
(* stage3_rule_based_analysis.py, 0.80 and 0.70 for stage3_working.py);    *)
(* the report of stage 6 shows the limits of exactly the stored bands.     *)
(***************************************************************************)
C18_BandsOnlyDisplayed ==
    /\ \A p \in SummaryPairs(summary) :
          LET lower == IF summary_by = "stage3_rule_based_analysis" THEN 600 ELSE 700
          IN  p[2] = IF p[1] > 800 THEN "installation"
                     ELSE IF p[1] >= lower THEN "mounting"
                     ELSE "foundation"
    /\ (last_run.script = "stage6_working" /\ "report" \in last_run.wrote) =>
          /\ DOMAIN report.rows.thresholds =
                IF adaptive_thresholds.exists THEN DOMAIN Table ELSE {}
          /\ \A s \in DOMAIN report.rows.thresholds :
                report.rows.thresholds[s] =
                    <<Table[s].recommended_min, Table[s].recommended_max>>

\* stage3_working.py has just labelled 0.65 foundation although the stored
\* mounting band holds 0.65, and the report has shown that band
C18_Witness ==
    /\ last_run.script = "stage3_working"
    /\ <<650, "foundation">> \in Classified
    /\ LearnedBandHolds("mounting", 650)
    /\ report.exists
    /\ "mounting" \in DOMAIN report.rows.thresholds

(***************************************************************************)
(* run_working_pipeline.py.  main walks the list stages once; an iteration *)
(* either finds the script missing and appends a failure, or starts the    *)
(* script as a subprocess, waits for it and appends its outcome.  The      *)
(* model splits the iteration at the wait: running is the stage whose      *)
(* subprocess is alive.  An entry of results is <<stage_num, success>>;    *)
(* the description of the code's triple is fixed by stage_num.             *)
(***************************************************************************)
stages == <<"stage1_working", "stage2_working", "stage3_working",
            "stage4_working", "stage5_working", "stage6_working">>

\* stage1_working.py: writes results/day1_detections.json, which no later
\* stage reads; ok is whether the interpreter can import cv2 and numpy
Stage1Working(ok) ==
    /\ last_run' = Ran("stage1_working", IF ok THEN 0 ELSE 1, {})
    /\ UNCHANGED <<summary, clip_analysis, rule_analysis, feedback_template,
                   feedback_log, adaptive_thresholds, summary_by,
                   stage2_comparison>>

\* stage2_working.py: writes the three simulated similarities; ok is
\* whether the interpreter can import numpy
Stage2Working(ok) ==
    /\ IF ok
       THEN /\ stage2_comparison' = File(<<850, 720, 680>>)
            /\ last_run' = Ran("stage2_working", 0, {"stage2_comparison"})
       ELSE /\ last_run' = Ran("stage2_working", 1, {})
            /\ UNCHANGED stage2_comparison
    /\ UNCHANGED <<summary, clip_analysis, rule_analysis, feedback_template,
                   feedback_log, adaptive_thresholds, summary_by>>

\* the next entry of stages, once every earlier one has its result
NextStage == Len(results) + 1

\* main, lines 62-64: the script exists, run_stage starts its subprocess
StartStage(k) ==
    /\ running = 0
    /\ k = NextStage
    /\ k <= Len(stages)
    /\ running' = k
    /\ UNCHANGED <<summary, clip_analysis, rule_analysis, feedback_template,
                   feedback_log, adaptive_thresholds, last_run, summary_by,
                   saving, results, report, stage2_comparison, message,
                   answer, timestamps>>

\* main, lines 66-68: the script is missing
ScriptMissing(k) ==
    /\ running = 0
    /\ k = NextStage
    /\ k <= Len(stages)
    /\ results' = Append(results, <<k, FALSE>>)
    /\ UNCHANGED <<summary, clip_analysis, rule_analysis, feedback_template,
                   feedback_log, adaptive_thresholds, last_run, summary_by,
                   saving, report, running, stage2_comparison, message,
                   answer, timestamps>>

\* run_stage, lines 36-38: subprocess.run raised, the script did not run
StageCrashed ==
    /\ running \in DOMAIN stages
    /\ results' = Append(results, <<running, FALSE>>)
    /\ running' = 0
    /\ UNCHANGED <<summary, clip_analysis, rule_analysis, feedback_template,
                   feedback_log, adaptive_thresholds, last_run, summary_by,
                   saving, report, stage2_comparison, message,
                   answer, timestamps>>

\* a pipeline that leaves the loop at the first stage whose return code is
\* not 0
StageFinishedOrStop(k) ==
    /\ running = k
    /\ results' = Append(results, <<k, last_run'.exit = 0>>)
    /\ running' = IF last_run'.exit = 0 THEN 0 ELSE Len(stages) + 1

\* run_stage, lines 26-34, and main, line 64: the subprocess of stage k has
\* ended and its return code decides the entry
StageFinished(k) ==
    /\ running = k
    /\ results' = Append(results, <<k, last_run'.exit = 0>>)
    /\ running' = 0

Completed == "FULL PIPELINE COMPLETED SUCCESSFULLY!"
SomeFailed == "Some stages failed. Check logs above."

\* a summary that goes by the report stage alone
PipelineSummaryLastStage ==
    /\ running = 0
    /\ Len(results) = Len(stages)
    /\ message = ""
    /\ answer = ""
    /\ timestamps = <<>>
    /\ message' = IF results[Len(results)][2] THEN Completed ELSE SomeFailed
    /\ UNCHANGED <<summary, clip_analysis, rule_analysis, feedback_template,
                   feedback_log, adaptive_thresholds, last_run, summary_by,
                   saving, results, report, running, stage2_comparison,
                   answer, timestamps>>

\* main, lines 77-97: the loop is over, successful is counted against total
PipelineSummary ==
    /\ running = 0
    /\ Len(results) = Len(stages)
    /\ message = ""
    /\ answer = ""
    /\ timestamps = <<>>
    /\ LET successful == Cardinality({i \in DOMAIN results : results[i][2]})
           total == Len(results)
       IN  message' = IF successful = total THEN Completed ELSE SomeFailed
    /\ UNCHANGED <<summary, clip_analysis, rule_analysis, feedback_template,
                   feedback_log, adaptive_thresholds, last_run, summary_by,
                   saving, results, report, running, stage2_comparison,
                   answer, timestamps>>

NextPipeline ==
    \/ \E k \in 1..Len(stages) : StartStage(k)
    \/ \E k \in 1..Len(stages) : ScriptMissing(k)
    \/ StageCrashed
    \/ \E ok \in BOOLEAN :
          Stage1Working(ok) /\ StageFinished(1)
             /\ UNCHANGED <<saving, report, message, answer, timestamps>>
    \/ \E ok \in BOOLEAN :
          Stage2Working(ok) /\ StageFinished(2)
             /\ UNCHANGED <<saving, report, message, answer, timestamps>>
    \/ Stage3Working(stage2_comparison) /\ StageFinished(3)
          /\ UNCHANGED <<saving, report, stage2_comparison, message,
                   answer, timestamps>>
    \/ Stage4Working /\ StageFinished(4)
          /\ UNCHANGED <<saving, report, stage2_comparison, message,
                   answer, timestamps>>
    \/ Stage5Working /\ StageFinished(5)
          /\ UNCHANGED <<saving, report, stage2_comparison, message,
                   answer, timestamps>>
    \/ Stage6Working /\ StageFinished(6)
          /\ UNCHANGED <<saving, stage2_comparison, message,
                   answer, timestamps>>
    \/ PipelineSummary

\* every subprocess ends and the for loop takes its next iteration
SpecPipeline == Init /\ [][NextPipeline]_vars /\ WF_vars(NextPipeline)

\* the entries are those of stages 1, 2, ... in that order, at most six, and
\* a subprocess that is alive is the one of the stage after the last entry
PipelineOrder ==
    /\ Len(results) <= Len(stages)
    /\ \A i \in DOMAIN results : results[i][1] = i
    /\ running \in 0..Len(stages)
    /\ running # 0 => running = NextStage

\* a step that adds an entry adds exactly one, at the end, and the entry is a
\* success exactly when the stage's script ran in that step and returned 0
RecordsOutcome ==
    results' # results =>
        /\ Len(results') = Len(results) + 1
        /\ SubSeq(results', 1, Len(results)) = results
        /\ results'[NextStage][2] =
              (/\ running = NextStage
               /\ last_run'.script = stages[NextStage]
               /\ last_run'.exit = 0)

PipelineDone == Len(results) = Len(stages) /\ running = 0

(***************************************************************************)
(* C20.  run_working_pipeline attempts the six stages in the order 1..6    *)
(* and always ends with exactly six result entries, one per stage in that  *)
(* order: the subprocess of stage k+1 is started only when stage k has its *)
(* entry, and a stage that fails, cannot be started or whose script is     *)
(* missing is recorded as failed while the later stages still get their    *)
(* turn.                                                                   *)
(***************************************************************************)
C20_SixStagesInOrder ==
    /\ []PipelineOrder
    /\ [][RecordsOutcome]_vars
    /\ <>[]PipelineDone

\* the pipeline has ended with six entries, and a stage after a failed one
\* has run and succeeded
C20_Witness ==
    /\ PipelineDone
    /\ \E k, j \in DOMAIN results : k < j /\ ~results[k][2] /\ results[j][2]
    /\ last_run.script = "stage6_working"

\* the entry a step adds while a subprocess is alive is a success exactly
\* when that stage's script returned 0, and run_stage has returned to main
ReturnCodeDecides ==
    (running # 0 /\ results' # results) =>
        /\ running' = 0
        /\ results' = Append(results,
                             <<running, /\ last_run'.script = stages[running]
                                        /\ last_run' # last_run
                                        /\ last_run'.exit = 0>>)

\* the verdict main printed fits the six entries
VerdictFits ==
    message # "" =>
        /\ Len(results) = Len(stages)
        /\ message \in {Completed, SomeFailed}
        /\ message = Completed <=> \A i \in DOMAIN results : results[i][2]

(***************************************************************************)
(* C21.  run_stage returns True exactly when the stage's subprocess ends   *)
(* with return code 0, and returns False on any other return code or when  *)
(* subprocess.run raises; main reports the full pipeline as completed      *)
(* successfully if and only if all six entries are successes, and          *)
(* otherwise reports that some stages failed.                              *)
(***************************************************************************)
C21_VerdictFromReturnCodes ==
    /\ [][ReturnCodeDecides]_vars
    /\ []VerdictFits

\* main has reported failed stages after a run in which a stage failed and
\* the report stage succeeded
C21_Witness ==
    /\ message = SomeFailed
    /\ results[Len(stages)][2]
    /\ \E i \in DOMAIN results : ~results[i][2]

(***************************************************************************)
(* The two determine_stage variants side by side: the two stage-3 scripts  *)
(* run one after the other on the same stage2_comparison.json, so that the *)
(* summary one of them replaces and the summary the other writes hold the  *)
(* same scores.  Sweep is one file with a score on every side of 0.60,     *)
(* 0.70 and 0.80.                                                          *)
(***************************************************************************)
CompareScores == {599, 600, 650, 699, 700, 750, 800, 801}

Sweep == <<599, 600, 650, 699, 700, 750, 800, 801>>

CompareFiles ==
    {File(Sweep)} \cup {File(d) : d \in SeqsUpTo(CompareScores, MaxImages + 1)}

NextCompare ==
    \/ \E data \in CompareFiles : Stage3RuleBased(data) /\ UNCHANGED elsewhere
    \/ \E data \in CompareFiles : Stage3Working(data) /\ UNCHANGED elsewhere

SpecCompare == Init /\ [][NextCompare]_vars

\* the scores of a summary, row by row
Scores(f) == [i \in DOMAIN f.rows |-> f.rows[i].similarity]

\* this step replaces the summary of one stage-3 script by the other script's
\* summary of the same scores
Paired ==
    /\ summary.exists
    /\ summary.rows # <<>>
    /\ summary_by # "none"
    /\ summary_by' # summary_by
    /\ summary'.exists
    /\ Scores(summary') = Scores(summary)

\* in a paired step, the label of row i by stage3_rule_based_analysis.py and
\* the one by stage3_working.py
ByAnalysis(i) ==
    IF summary_by = "stage3_rule_based_analysis"
    THEN summary.rows[i].predicted_stage ELSE summary'.rows[i].predicted_stage
ByWorking(i) ==
    IF summary_by = "stage3_working"
    THEN summary.rows[i].predicted_stage ELSE summary'.rows[i].predicted_stage

\* one variant says installation where the other says mounting
SplitUpper(i) == {ByAnalysis(i), ByWorking(i)} = {"installation", "mounting"}
\* one variant says mounting where the other says foundation
SplitLower(i) == {ByAnalysis(i), ByWorking(i)} = {"mounting", "foundation"}

(***************************************************************************)
(* C22, as amended.  The two variants agree on the boundary between        *)
(* mounting and installation (0.80, exclusive) and differ in the boundary  *)
(* between foundation and mounting, 0.60 in stage3_rule_based_analysis.py  *)
(* and 0.70 in stage3_working.py: no score is installation for one and     *)
(* mounting for the other, and of the scores of the sweep one is mounting  *)
(* for one variant and foundation for the other.                           *)
(***************************************************************************)
C22_LowerBoundaryDiffers ==
    [][ Paired =>
          /\ \A i \in DOMAIN summary.rows : ~SplitUpper(i)
          /\ Scores(summary) = Sweep => \E i \in DOMAIN summary.rows : SplitLower(i)
      ]_vars

\* stage3_working.py has labelled the sweep, and 0.75 is mounting for it
C22_Witness ==
    /\ last_run.script = "stage3_working"
    /\ summary.exists
    /\ Scores(summary) = Sweep
    /\ summary.rows[6].predicted_stage = "mounting"

\* C22 as stated: the variants differ in the boundary between mounting and
\* installation, so of the scores of the sweep one is installation for one
\* variant and mounting for the other
C22_UpperBoundaryDiffers ==
    [][ (Paired /\ Scores(summary) = Sweep) =>
            \E i \in DOMAIN summary.rows : SplitUpper(i)
      ]_vars

(***************************************************************************)
(* C23.  The two determine_stage variants give every finite score outside  *)
(* [0.60, 0.70) the same stage, and every score inside it is mounting for  *)
(* stage3_rule_based_analysis.py and foundation for stage3_working.py.     *)
(***************************************************************************)
C23_DifferOnlyBetween ==
    [][ Paired =>
          \A i \in DOMAIN summary.rows :
              LET x == summary.rows[i].similarity
              IN  IF 600 <= x /\ x < 700
                  THEN ByAnalysis(i) = "mounting" /\ ByWorking(i) = "foundation"
                  ELSE ByAnalysis(i) = ByWorking(i)
      ]_vars

\* stage3_working.py has labelled 0.699 foundation and 0.70 mounting in one run
C23_Witness ==
    /\ summary_by = "stage3_working"
    /\ <<699, "foundation">> \in SummaryPairs(summary)
    /\ <<700, "mounting">> \in SummaryPairs(summary)

(***************************************************************************)
(* The two Learners on one log, as found: both run, in any order and any   *)
(* number of times, on a log nobody changes.  The stage labels of the rows *)
(* are lower-case and the second row is marked no.                         *)
(***************************************************************************)
EquivRows ==
    { Row("foundation", 550, "yes", ""),
      Row("mounting", 720, "no", "foundation"),
      Row("installation", 850, "yes", "") }

InitEquiv ==
    /\ summary = NoFile
    /\ clip_analysis = NoFile
    /\ rule_analysis = NoFile
    /\ feedback_template = NoFile
    /\ feedback_log \in {File(rows) : rows \in SeqsUpTo(EquivRows, MaxPermLog)}
    /\ adaptive_thresholds = NoFile
    /\ last_run = Ran("none", 0, {})
    /\ summary_by = "none"
    /\ saving = [p \in Reviewers |-> Idle]
    /\ results = <<>>
    /\ report = NoFile
    /\ running = 0
    /\ stage2_comparison = NoFile
    /\ message = ""
    /\ answer = ""
    /\ timestamps = <<>>

NextEquiv ==
    \/ Stage5SelfLearning /\ UNCHANGED elsewhere
    \/ Stage5Working /\ UNCHANGED elsewhere

SpecEquiv == InitEquiv /\ [][NextEquiv]_vars

\* a log whose stage labels are lower-case and that has a record marked no
WellFormedLog ==
    /\ feedback_log.exists
    /\ \A i \in DOMAIN Log : /\ Lower(Log[i].predicted_stage) = Log[i].predicted_stage
                             /\ Lower(Log[i].corrected_stage) = Log[i].corrected_stage
    /\ \E i \in DOMAIN Log : Lower(Log[i].is_correct) = "no"

(***************************************************************************)
(* C24.  The two Learners are equivalent on well-formed logs: when one of  *)
(* them has written its table from a log whose stage labels are lower-case *)
(* and that holds a record marked no, a run of the other on the same log   *)
(* writes the same table (same stages, and per stage the same mean,        *)
(* std_dev, recommended_min, recommended_max and sample_size).             *)
(***************************************************************************)
C24_LearnersAgree ==
    [][ ( /\ WellFormedLog
          /\ Recomputed /\ WroteTable
          /\ last_run'.script \in Learners \ {last_run.script}
          /\ feedback_log' = feedback_log )
        => /\ "adaptive_thresholds" \in last_run'.wrote
           /\ adaptive_thresholds' = adaptive_thresholds
      ]_vars

\* the log has a record marked no
HasIncorrect == \E i \in DOMAIN Log : Lower(Log[i].is_correct) = "no"

(***************************************************************************)
(* C25.  stage5_self_learning.py writes adaptive_thresholds.json only when *)
(* feedback_log.csv exists, is not empty and holds a record marked no; on  *)
(* each of its early exits (no log, empty log, no record marked no) the    *)
(* table written before is left as it was.                                 *)
(***************************************************************************)
C25_WritesOnlyWithIncorrect ==
    [][ last_run'.script = "stage5_self_learning" =>
          IF feedback_log.exists /\ Len(Log) > 0 /\ HasIncorrect
          THEN TRUE
          ELSE /\ "adaptive_thresholds" \notin last_run'.wrote
               /\ adaptive_thresholds' = adaptive_thresholds
      ]_vars

\* stage5_self_learning.py has left by its third early exit, and the table
\* of an earlier run is still there
C25_Witness ==
    /\ last_run.script = "stage5_self_learning"
    /\ last_run.wrote = {}
    /\ feedback_log.exists
    /\ Len(Log) > 0
    /\ ~HasIncorrect
    /\ adaptive_thresholds.exists

(***************************************************************************)
(* stage4_feedback_system.py with its prompt and its clock.  answer is the *)
(* line typed at the prompt, timestamps the timestamp column of the log.   *)
(* A timestamp is the number of the second the save happened in; a save is *)
(* later than the saves before it.                                         *)
(***************************************************************************)
Answers == {"save", "SAVE", " Save ", "", "no", "save it"}

\* input(...).strip().lower() on the lines the model types
strip_lower(line) ==
    CASE line = "SAVE" -> "save"
      [] line = " Save " -> "save"
      [] OTHER -> line

\* datetime.now() of a run that saves
SaveTime == IF timestamps = <<>> THEN 1 ELSE timestamps[Len(timestamps)] + 1

\* a run that stamps the frame after the concatenation with the old log
PromptedStampsAfterConcat(edited, line) ==
    /\ Stage4FeedbackSystem(edited, strip_lower(line))
    /\ answer' = IF last_run'.exit = 0 THEN line ELSE answer
    /\ timestamps' = IF "feedback_log" \in last_run'.wrote
                     THEN [i \in 1..Len(feedback_log'.rows) |-> SaveTime]
                     ELSE timestamps

\* one run of stage4_feedback_system.py: line is typed at the prompt of line
\* 60, and line 64 stamps the rows of the template before line 69 puts the
\* old log in front of them
Prompted(edited, line) ==
    /\ Stage4FeedbackSystem(edited, strip_lower(line))
    /\ answer' = IF last_run'.exit = 0 THEN line ELSE answer
    /\ timestamps' = IF "feedback_log" \in last_run'.wrote
                     THEN (IF feedback_log.exists THEN timestamps ELSE <<>>)
                          \o [i \in 1..Len(feedback_template'.rows) |-> SaveTime]
                     ELSE timestamps

SaveStage2Files == {NoFile, File(<<650>>)}

\* the template as the supervisor leaves it while the prompt waits: not
\* touched, or one row filled in
SaveTemplates == {NoFile, File(<<Row("mounting", 770, "yes", "")>>)}

NextSave ==
    \/ \E data \in SaveStage2Files :
          Stage3Working(data) /\ UNCHANGED elsewhere
    \/ \E edited \in SaveTemplates, line \in Answers :
          Prompted(edited, line)
             /\ UNCHANGED <<saving, results, report, running, stage2_comparison, message>>

SpecSave == Init /\ [][NextSave]_vars

\* the lines that are 'save' up to case and surrounding blanks
SaveLines == {"save", "SAVE", " Save "}

\* this step is a run of stage4_feedback_system.py that got to its prompt
PromptAnswered ==
    /\ last_run'.script = "stage4_feedback_system"
    /\ last_run'.exit = 0

(***************************************************************************)
(* C26.  In stage4_feedback_system.py, an answer other than 'save' (up to  *)
(* case and surrounding blanks) leaves feedback_log.csv as it was; with    *)
(* 'save' the new log is the records of the old log followed by one record *)
(* per row of the template, so its length is the old length plus the       *)
(* number of template rows, and the timestamps of the old records are      *)
(* unchanged.                                                              *)
(***************************************************************************)
C26_SaveAppends ==
    [][ PromptAnswered =>
          IF answer' \in SaveLines
          THEN LET old == IF feedback_log.exists THEN Log ELSE <<>>
               IN  /\ feedback_log'.exists
                   /\ Log' = old \o feedback_template'.rows
                   /\ Len(Log') = Len(old) + Len(feedback_template'.rows)
                   /\ Len(timestamps') = Len(Log')
                   /\ SubSeq(timestamps', 1, Len(old)) = timestamps
          ELSE /\ feedback_log' = feedback_log
               /\ timestamps' = timestamps
      ]_vars

\* a second save, typed as ' Save ', has put a record behind an older one
C26_Witness ==
    /\ last_run.script = "stage4_feedback_system"
    /\ answer = " Save "
    /\ Len(Log) >= 2
    /\ Len(timestamps) = Len(Log)
    /\ timestamps[1] < timestamps[Len(timestamps)]

(***************************************************************************)
(* The two Learners on a log with records that carry no verdict: a row of  *)
(* the template saved blank, with and without a corrected stage, and a row *)
(* whose is_correct is another word.                                       *)
(***************************************************************************)
VerdictRows ==
    { Row("foundation", 550, "yes", ""),
      Row("mounting", 720, "no", "installation"),
      Row("mounting", 770, "", "foundation"),
      Row("installation", 850, "maybe", "installation") }

\* results/ with nothing but a feedback log of at most n of these rows
LogAsFound(rows, n) ==
    /\ summary = NoFile
    /\ clip_analysis = NoFile
    /\ rule_analysis = NoFile
    /\ feedback_template = NoFile
    /\ feedback_log \in {File(log) : log \in SeqsUpTo(rows, n)}
    /\ adaptive_thresholds = NoFile
    /\ last_run = Ran("none", 0, {})
    /\ summary_by = "none"
    /\ saving = [p \in Reviewers |-> Idle]
    /\ results = <<>>
    /\ report = NoFile
    /\ running = 0
    /\ stage2_comparison = NoFile
    /\ message = ""
    /\ answer = ""
    /\ timestamps = <<>>

InitVerdicts == LogAsFound(VerdictRows, MaxLog)

NextVerdicts ==
    \/ Stage5SelfLearning /\ UNCHANGED elsewhere
    \/ Stage5Working /\ UNCHANGED elsewhere

SpecVerdicts == InitVerdicts /\ [][NextVerdicts]_vars

\* a record whose is_correct is yes or no
HasVerdict(r) == Lower(r.is_correct) \in {"yes", "no"}

(***************************************************************************)
(* C27.  A feedback record whose is_correct is neither yes nor no gives    *)
(* its score to no stage in either Learner, whatever its predicted_stage   *)
(* and corrected_stage: the table a Learner writes is the table it         *)
(* computes from the records that carry a verdict, and no band of it has   *)
(* more samples than there are such records.                               *)
(***************************************************************************)
C27_NoVerdictNoSample ==
    (Recomputed /\ WroteTable) =>
        /\ Table = TableFrom(last_run.script, SelectSeq(Log, HasVerdict))
        /\ \A s \in DOMAIN Table :
              Table[s].sample_size <= Len(SelectSeq(Log, HasVerdict))

\* a Learner has written a table from a log that holds a blank row naming
\* foundation as corrected stage, and the table has no foundation band
C27_Witness ==
    /\ Recomputed
    /\ WroteTable
    /\ \E i \in DOMAIN Log : Log[i] = Row("mounting", 770, "", "foundation")
    /\ "foundation" \notin DOMAIN Table
    /\ DOMAIN Table # {}

\* the samples of all bands of a table together
RECURSIVE SampleTotal(_, _)
SampleTotal(table, S) ==
    IF S = {} THEN 0
    ELSE LET s == CHOOSE t \in S : TRUE
         IN  table[s].sample_size + SampleTotal(table, S \ {s})

(***************************************************************************)
(* C28.  Each feedback record gives its score to at most one stage, so in  *)
(* every table a Learner writes the sample_size of all bands together is   *)
(* at most the number of records of the log.                               *)
(***************************************************************************)
C28_SamplesWithinLog ==
    (last_run.script \in Learners /\ WroteTable) =>
        SampleTotal(Table, DOMAIN Table) <= IF feedback_log.exists THEN Len(Log) ELSE 0

(***************************************************************************)
(* stage4_working.py after stage3_working.py on batches of one to four     *)
(* images: one more than the three sample verdicts of stage4_working.py.   *)
(***************************************************************************)
SampleBatches ==
    {NoFile} \cup {File(SubSeq(<<850, 720, 680, 650>>, 1, n)) : n \in 1..4}
             \cup {File(d) : d \in SeqsUpTo(PipelineScores, MaxImages) \ {<<>>}}

NextSample ==
    \/ \E data \in SampleBatches : Stage3Working(data) /\ UNCHANGED elsewhere
    \/ \E in \in FeedbackStage4Inputs :
          Stage4FeedbackSystem(in[1], in[2]) /\ UNCHANGED elsewhere
    \/ Stage4Working /\ UNCHANGED elsewhere

SpecSample == Init /\ [][NextSample]_vars

(***************************************************************************)
(* C29.  For any number of rows in the stage-3 summary, stage4_working.py  *)
(* completes and writes a feedback log with exactly one record per row of  *)
(* the summary, each with its verdict fields (is_correct and               *)
(* corrected_stage; comments and timestamp are set by the statements next  *)
(* to them and are not carried here).                                      *)
(***************************************************************************)
C29_OneRecordPerRow ==
    (last_run.script = "stage4_working" /\ summary.exists) =>
        /\ last_run.exit = 0
        /\ "feedback_log" \in last_run.wrote
        /\ Len(Log) = Len(summary.rows)
        /\ \A i \in DOMAIN Log :
              /\ {"is_correct", "corrected_stage"} \subseteq DOMAIN Log[i]
              /\ Log[i].predicted_stage = summary.rows[i].predicted_stage
              /\ Log[i].similarity = summary.rows[i].similarity

(***************************************************************************)
(* The anomaly report of stage3_rule_based_analysis.py.  The frame the     *)
(* script flags from is the frame it saves as the summary.                 *)
(***************************************************************************)
IsLow(r) == FLt(r.similarity, 500)
IsLowOrMiddling(r) == FLt(r.similarity, 650)

\* the selection with the threshold at 0.65
anomalies_below_065(df) == SelectSeq(df, IsLowOrMiddling)

\* df[df["similarity"] < 0.50]
anomalies(df) == SelectSeq(df, IsLow)

IsFoundation(r) == r.predicted_stage = "foundation"

(***************************************************************************)
(* C30.  In stage3_rule_based_analysis.py every image flagged as an        *)
(* anomaly (similarity < 0.50) has predicted_stage foundation, so the      *)
(* number of anomalies never exceeds the number of images classified       *)
(* foundation, and no image classified mounting or installation is         *)
(* flagged.                                                                *)
(***************************************************************************)
C30_AnomaliesAreFoundation ==
    (summary_by = "stage3_rule_based_analysis" /\ summary.exists) =>
        LET flagged == anomalies(summary.rows)
        IN  /\ \A i \in DOMAIN flagged : flagged[i].predicted_stage = "foundation"
            /\ Len(flagged) <= Len(SelectSeq(summary.rows, IsFoundation))
            /\ \A i \in DOMAIN summary.rows :
                  summary.rows[i].predicted_stage \in {"mounting", "installation"}
                      => ~IsLow(summary.rows[i])

\* stage3_rule_based_analysis.py has flagged an image with score 0.40
C30_Witness ==
    /\ ByRuleBased
    /\ "summary" \in last_run.wrote
    /\ \E i \in DOMAIN anomalies(summary.rows) : anomalies(summary.rows)[i].similarity = 400

=============================================================================
